---------------------------- MODULE Spec2Model ----------------------------
(***************************************************************************)
(* A model of hryang/timsort (src/timsort.h, src/timsort_ut.cpp).          *)
(*                                                                         *)
(* Iterators are modelled as 0-based offsets into the array `arr`: the     *)
(* iterator first + k is the integer k and *p is arr[p + 1].  Elements are *)
(* pairs <<key, sub>>; the element type's own operators (<, <=) order them *)
(* lexicographically, and the caller-supplied comparator is one of the     *)
(* names in Comparators.                                                   *)
(***************************************************************************)
EXTENDS Integers, Sequences, FiniteSets, TLC

VARIABLES
    arr,             \* the caller's range [first, last), as a sequence
    input,           \* the contents of the range when the operation was called
    comp,            \* the comparator passed by the caller
    pc,              \* the position of the running operation
    mArraySize,      \* MergeState::mArraySize
    mNumRunInStack,  \* MergeState::mNumRunInStack
    mStack,          \* MergeState::mStack, the entries [0, mNumRunInStack)
    mMinGallop,      \* MergeState::mMinGallop
    mergeCap,        \* capacity of MergeState::mMergeArea
    minRunLength,    \* Sort's local minRunLength
    next,            \* Sort's local next
    run,             \* Sort's local run
    fail,            \* the assertions whose condition was false when reached
    oob,             \* the buffers that were accessed outside their bounds
    hint,            \* unit calls: the hint of GallopLeft/GallopRight, the
                     \* size n of CalcMinRunLength, the stackPos of MergeAt
    value,           \* unit call of GallopLeft/GallopRight: the value
    result,          \* the value returned by the unit call
    pivot,           \* unit calls: lastA == firstB of MergeLow/MergeHigh, the
                     \* gold of TestCalcMinRunLength
    ndebug,          \* TRUE in a build with NDEBUG, where assert() does nothing
    log              \* what was done: the runs pushed, the calls of MergeAt
                     \* and the merges

vars == <<arr, input, comp, pc, mArraySize, mNumRunInStack, mStack, mMinGallop,
          mergeCap, minRunLength, next, run, fail, oob, hint, value, result,
          pivot, ndebug, log>>

-----------------------------------------------------------------------------
(* Program constants *)

kMaxMinRunLength == 32

kMaxMergeStackSize == 100

kMinGallop == 7

kInitMergeAreaSize == 256

-----------------------------------------------------------------------------
(* Bounds of the model *)

\* keys of the elements of exhaustively enumerated inputs are 1..MaxKey
MaxKey == 2

\* exhaustively enumerated inputs of Sort have 0..MaxLen elements
MaxLen == 4

\* patterned inputs of Sort have kMaxMinRunLength + d or
\* 2 * kMaxMinRunLength + d elements, d in 0..MaxExtra; the natural runs of
\* the wide inputs have kInitMergeAreaSize + 1 + d elements, or three times
\* as many
MaxExtra == 1

\* the patterns of the patterned inputs have the periods 1..MaxPeriod
MaxPeriod == 18

-----------------------------------------------------------------------------
(* Elements and comparators *)

Key(x) == x[1]

Sub(x) == x[2]

Subs == {0, 1}

Elements == (1..MaxKey) \X Subs

\* the element type's operator< and operator<=
BuiltinLt(x, y) == Key(x) < Key(y) \/ (Key(x) = Key(y) /\ Sub(x) < Sub(y))

BuiltinLe(x, y) == ~BuiltinLt(y, x)

Comparators == {"less", "greater", "keyless"}

\* comp(x, y) for the comparator named c: std::less, std::greater, and a
\* comparator that orders by the key alone
Comp(c, x, y) ==
    CASE c = "less"    -> BuiltinLt(x, y)
      [] c = "greater" -> BuiltinLt(y, x)
      [] c = "keyless" -> Key(x) < Key(y)

\* *p for the iterator p over the sequence a
At(a, p) == a[p + 1]

\* the elements of [f, l) of a
Range(a, f, l) == SubSeq(a, f + 1, l)

\* a with [f, f + Len(s)) overwritten by s
Overwrite(a, f, s) ==
    [i \in 1..Len(a) |-> IF i > f /\ i <= f + Len(s) THEN s[i - f] ELSE a[i]]

Min(x, y) == IF x <= y THEN x ELSE y

Max(x, y) == IF x >= y THEN x ELSE y

Pow2(k) == 2 ^ k

\* the one element of a singleton set.  A value that is used more than once
\* is bound as  Only({ body : x \in {value} }),  which evaluates it once.
Only(S) == CHOOSE x \in S : TRUE

-----------------------------------------------------------------------------
(* std::lower_bound and std::upper_bound over [first, last) of a: the      *)
(* binary searches of the standard library, halving the remaining length.  *)

RECURSIVE LowerBoundLoop(_, _, _, _, _)
LowerBoundLoop(a, c, first, len, v) ==
    IF len <= 0 THEN first
    ELSE Only({ IF Comp(c, At(a, f + half), v)
                THEN LowerBoundLoop(a, c, f + half + 1, len - half - 1, v)
                ELSE LowerBoundLoop(a, c, f, half, v)
                : <<f, half>> \in {<<first, len \div 2>>} })

lower_bound(a, c, first, last, v) ==
    Only({ LowerBoundLoop(a, c, w[1], w[2] - w[1], v) : w \in {<<first, last>>} })

RECURSIVE UpperBoundLoop(_, _, _, _, _)
UpperBoundLoop(a, c, first, len, v) ==
    IF len <= 0 THEN first
    ELSE Only({ IF Comp(c, v, At(a, f + half))
                THEN UpperBoundLoop(a, c, f, half, v)
                ELSE UpperBoundLoop(a, c, f + half + 1, len - half - 1, v)
                : <<f, half>> \in {<<first, len \div 2>>} })

upper_bound(a, c, first, last, v) ==
    Only({ UpperBoundLoop(a, c, w[1], w[2] - w[1], v) : w \in {<<first, last>>} })

-----------------------------------------------------------------------------
(* GallopLeft and GallopRight.  Each returns [p |-> the position returned, *)
(* bad |-> the assertions that failed].  The offsets 1LL << k are 64 bits  *)
(* wide in the source; within the lengths of this model k stays below 8.   *)

\* the loop of the branch value <= *hint: returns <<begin, end>>
RECURSIVE GallopLeftDown(_, _, _, _, _, _, _)
GallopLeftDown(a, c, first, v, begin, end, k) ==
    IF begin > first /\ ~Comp(c, At(a, begin), v)
    THEN Only({ GallopLeftDown(a, c, first, v, b - Pow2(k), b, k + 1)
                : b \in {begin} })
    ELSE <<begin, end>>

\* the loop of the branch value > *hint: returns <<begin, end>>
RECURSIVE GallopLeftUp(_, _, _, _, _, _, _)
GallopLeftUp(a, c, last, v, begin, end, k) ==
    IF end < last /\ Comp(c, At(a, end), v)
    THEN Only({ GallopLeftUp(a, c, last, v, e, e + Pow2(k), k + 1)
                : e \in {end} })
    ELSE <<begin, end>>

\* the search window [begin, end) GallopLeft hands to lower_bound
GallopLeftWindow(a, c, first, last, h, v) ==
    IF ~Comp(c, At(a, h), v)
    THEN Only({ <<IF be[1] >= first THEN be[1] ELSE first, be[2]>>
                : be \in {GallopLeftDown(a, c, first, v, h - 1, h, 1)} })
    ELSE Only({ <<be[1], IF be[2] <= last THEN be[2] ELSE last>>
                : be \in {GallopLeftUp(a, c, last, v, h, h + 1, 1)} })

\* a slip: GallopLeft finishing with upper_bound, as GallopRight does
GallopLeftUpperBound(a, c, first, last, h, v) ==
    IF ~(first <= h /\ h < last)
    THEN [p |-> first, bad |-> {"GallopLeft:hint"}]
    ELSE Only({ [p   |-> upper_bound(a, c, w[1], w[2], v),
                 bad |-> IF first <= w[1] /\ w[1] <= w[2] /\ w[2] <= last
                         THEN {} ELSE {"GallopLeft:window"}]
                : w \in {GallopLeftWindow(a, c, first, last, h, v)} })

GallopLeft(a, c, first, last, h, v) ==
    IF ~(first <= h /\ h < last)
    THEN [p |-> first, bad |-> {"GallopLeft:hint"}]
    ELSE Only({ [p   |-> lower_bound(a, c, w[1], w[2], v),
                 bad |-> IF first <= w[1] /\ w[1] <= w[2] /\ w[2] <= last
                         THEN {} ELSE {"GallopLeft:window"}]
                : w \in {GallopLeftWindow(a, c, first, last, h, v)} })

\* the loop of the branch value < *hint
RECURSIVE GallopRightDown(_, _, _, _, _, _, _)
GallopRightDown(a, c, first, v, begin, end, k) ==
    IF begin > first /\ Comp(c, v, At(a, begin))
    THEN Only({ GallopRightDown(a, c, first, v, b - Pow2(k), b, k + 1)
                : b \in {begin} })
    ELSE <<begin, end>>

\* the loop of the branch value >= *hint
RECURSIVE GallopRightUp(_, _, _, _, _, _, _)
GallopRightUp(a, c, last, v, begin, end, k) ==
    IF end < last /\ ~Comp(c, v, At(a, end))
    THEN Only({ GallopRightUp(a, c, last, v, e, e + Pow2(k), k + 1)
                : e \in {end} })
    ELSE <<begin, end>>

\* the search window [begin, end) GallopRight hands to upper_bound
GallopRightWindow(a, c, first, last, h, v) ==
    IF Comp(c, v, At(a, h))
    THEN Only({ <<IF be[1] >= first THEN be[1] ELSE first, be[2]>>
                : be \in {GallopRightDown(a, c, first, v, h - 1, h, 1)} })
    ELSE Only({ <<be[1], IF be[2] <= last THEN be[2] ELSE last>>
                : be \in {GallopRightUp(a, c, last, v, h, h + 1, 1)} })

\* a faulty variant: the search stops before the elements equal to v
GallopRightBeforeEqual(a, c, first, last, h, v) ==
    GallopLeft(a, c, first, last, h, v)

GallopRight(a, c, first, last, h, v) ==
    IF ~(first <= h /\ h < last)
    THEN [p |-> first, bad |-> {"GallopRight:hint"}]
    ELSE Only({ [p   |-> upper_bound(a, c, w[1], w[2], v),
                 bad |-> IF first <= w[1] /\ w[1] <= w[2] /\ w[2] <= last
                         THEN {} ELSE {"GallopRight:window"}]
                : w \in {GallopRightWindow(a, c, first, last, h, v)} })

-----------------------------------------------------------------------------
(* MergeState.  The operations on a merge state take and return a record   *)
(*   [a    |-> the array,            stack |-> mStack[0 .. num),           *)
(*    num  |-> mNumRunInStack,       mg    |-> mMinGallop,                 *)
(*    cap  |-> mMergeArea.capacity(), n    |-> mArraySize,                 *)
(*    bad  |-> the assertions whose condition was false when reached,      *)
(*    oob  |-> the accesses made outside a buffer,                         *)
(*    nd   |-> TRUE in a build with NDEBUG,                                *)
(*    dead |-> TRUE once a failed assertion has stopped the program,       *)
(*    log  |-> the merges carried out]                                     *)
(* A failed assertion stops the program in a build with assertions and     *)
(* does nothing in a build with NDEBUG, where the code that follows runs.  *)

MergeStateInit(a, arraySize, nd) ==
    [a |-> a, stack |-> <<>>, num |-> 0, mg |-> kMinGallop,
     cap |-> kInitMergeAreaSize, n |-> arraySize, bad |-> {}, oob |-> {},
     nd |-> nd, dead |-> FALSE, log |-> <<>>]

\* assert(cond) at a point of a running merge whose state, were the
\* assertion to hold, is s
Check(s, cond, label) ==
    IF cond THEN s
    ELSE [s EXCEPT !.bad = @ \cup {label},
                   !.at = IF s.nd THEN @ ELSE "abort"]

\* the smallest power of 2 above r, as the shifts and ors compute it for
\* a 32-bit r below 2^31
RECURSIVE NextPow2From(_, _)
NextPow2From(p, r) == IF p > r THEN p ELSE NextPow2From(2 * p, r)

\* a faulty variant: the reservation is never enlarged
EnsureMergeAreaSizeNoGrowth(ms, requiredSize) == ms

\* mMergeArea is only ever reserve()d, so mMergeArea.size() stays 0
EnsureMergeAreaSize(ms, requiredSize) ==
    IF 0 < requiredSize
    THEN LET newSize == Min(NextPow2From(1, requiredSize), ms.n \div 2)
         IN  [ms EXCEPT !.cap = Max(ms.cap, newSize)]
    ELSE ms

Put(a, p, x) == [a EXCEPT ![p + 1] = x]

\* the state of a running MergeLow or MergeHigh:
\*   a: the array; m: the merge area; cA, cB, cD: cursorA, cursorB,
\*   cursorDest; lA, lB: lengthA, lengthB; eA, eB: the fixed end of the
\*   run that is searched (lastA/lastB in MergeLow, firstA/firstB in
\*   MergeHigh); mg: the local minGallop; nA, nB: countA, countB;
\*   at: the position in the function; bad: the assertions that failed;
\*   steps: the loop iterations made; gallops: those made in galloping mode
MergeLowEnter(ms, firstA, lastA, firstB, lastB, c) ==
    LET lengthA == lastA - firstA
        lengthB == lastB - firstB
        pre == /\ 0 < lengthA /\ lengthA <= lengthB
               /\ lastA = firstB
               /\ Comp(c, At(ms.a, firstB), At(ms.a, firstA))
               /\ Comp(c, At(ms.a, lastB - 1), At(ms.a, lastA - 1))
        a1 == Put(ms.a, firstA, At(ms.a, firstB))
    IN  IF ~pre /\ (~ms.nd \/ lengthA <= 0 \/ lengthB <= 0 \/ lastA # firstB)
        THEN [a |-> ms.a, m |-> <<>>, cA |-> 0, cB |-> firstB, cD |-> firstA,
              lA |-> lengthA, lB |-> lengthB, eA |-> lengthA, eB |-> lastB,
              mg |-> ms.mg, nA |-> 0, nB |-> 0, at |-> "abort",
              bad |-> {"MergeLow:pre"}, nd |-> ms.nd, steps |-> 0, gallops |-> 0]
        ELSE [a |-> a1, m |-> Range(ms.a, firstA, lastA),
              cA |-> 0, cB |-> firstB + 1, cD |-> firstA + 1,
              lA |-> lengthA, lB |-> lengthB - 1, eA |-> lengthA, eB |-> lastB,
              mg |-> ms.mg, nA |-> 0, nB |-> 0,
              at |-> IF lengthB - 1 = 0 THEN "copyArea"
                     ELSE IF lengthA = 1 THEN "copyB" ELSE "pair",
              bad |-> IF pre THEN {} ELSE {"MergeLow:pre"},
              nd |-> ms.nd, steps |-> 0, gallops |-> 0]

\* a faulty variant: on a tie the element of B is taken
MergeLowPairTieToB(s, c) ==
    IF ~Comp(c, At(s.m, s.cA), At(s.a, s.cB))
    THEN LET nB == s.nB + 1
         IN  [s EXCEPT !.a = Put(s.a, s.cD, At(s.a, s.cB)),
                       !.cD = s.cD + 1, !.cB = s.cB + 1, !.lB = s.lB - 1,
                       !.nA = 0, !.nB = nB, !.steps = s.steps + 1,
                       !.at = IF s.lB - 1 = 0 THEN "copyArea"
                              ELSE IF nB < s.mg THEN "pair" ELSE "gallop"]
    ELSE LET nA == s.nA + 1
         IN  [s EXCEPT !.a = Put(s.a, s.cD, At(s.m, s.cA)),
                       !.cD = s.cD + 1, !.cA = s.cA + 1, !.lA = s.lA - 1,
                       !.nA = nA, !.nB = 0, !.steps = s.steps + 1,
                       !.at = IF s.lA - 1 = 1 THEN "copyB"
                              ELSE IF nA < s.mg THEN "pair" ELSE "gallop"]

\* one iteration of the one-pair-at-a-time loop, with its exit test
MergeLowPair(s, c) ==
    IF Comp(c, At(s.a, s.cB), At(s.m, s.cA))
    THEN LET nB == s.nB + 1
         IN  [s EXCEPT !.a = Put(s.a, s.cD, At(s.a, s.cB)),
                       !.cD = s.cD + 1, !.cB = s.cB + 1, !.lB = s.lB - 1,
                       !.nA = 0, !.nB = nB, !.steps = s.steps + 1,
                       !.at = IF s.lB - 1 = 0 THEN "copyArea"
                              ELSE IF nB < s.mg THEN "pair" ELSE "gallop"]
    ELSE LET nA == s.nA + 1
         IN  [s EXCEPT !.a = Put(s.a, s.cD, At(s.m, s.cA)),
                       !.cD = s.cD + 1, !.cA = s.cA + 1, !.lA = s.lA - 1,
                       !.nA = nA, !.nB = 0, !.steps = s.steps + 1,
                       !.at = IF s.lA - 1 = 1 THEN "copyB"
                              ELSE IF nA < s.mg THEN "pair" ELSE "gallop"]

\* galloping mode, first half: the elements of A that go before *cursorB
MergeLowGallopA(s, c) ==
    Only({
    IF t.at = "abort" THEN t
    ELSE Only({ Only({
        IF g.bad # {} /\ ~s1.nd THEN [s1 EXCEPT !.at = "abort"]
        ELSE IF s1.nA # 0 /\ s1.lA = 0
        THEN Check([s1 EXCEPT !.at = "ret"], s1.lB = 0, "MergeLow:Aempty")
        ELSE IF s1.nA # 0 /\ s1.lA = 1 THEN [s1 EXCEPT !.at = "copyB"]
        ELSE [s1 EXCEPT !.a = Put(s1.a, s1.cD, At(s1.a, s1.cB)),
                        !.cD = s1.cD + 1, !.cB = s1.cB + 1, !.lB = s1.lB - 1,
                        !.at = IF s1.lB - 1 = 0 THEN "copyArea" ELSE "gallopB"]
        : s1 \in {[t EXCEPT !.a = Overwrite(t.a, t.cD, Range(t.m, t.cA, g.p)),
                            !.cD = t.cD + (g.p - t.cA), !.cA = g.p,
                            !.lA = t.lA - (g.p - t.cA), !.nA = g.p - t.cA,
                            !.bad = @ \cup g.bad, !.steps = t.steps + 1,
                            !.gallops = t.gallops + 1]} })
        : g \in {GallopRight(t.m, c, t.cA, t.eA, t.cA, At(t.a, t.cB))} })
    : t \in {Check(s, s.lA > 1 /\ s.lB > 0, "MergeLow:gallop")} })

\* galloping mode, second half: the elements of B that go before *cursorA,
\* then the adaptation of minGallop and the exit test of the loop
MergeLowGallopB(s, c) ==
    Only({ Only({
        IF g.bad # {} /\ ~s1.nd THEN [s1 EXCEPT !.at = "abort"]
        ELSE IF s1.nB # 0 /\ s1.lB = 0
        THEN Check([s1 EXCEPT !.at = "copyArea"], s1.lA > 0, "MergeLow:Bempty")
        ELSE IF s1.lA - 1 = 1
        THEN [s1 EXCEPT !.a = Put(s1.a, s1.cD, At(s1.m, s1.cA)),
                        !.cD = s1.cD + 1, !.cA = s1.cA + 1, !.lA = s1.lA - 1,
                        !.at = "copyB"]
        ELSE LET mg1 == IF s1.mg > 1 THEN s1.mg - 1 ELSE s1.mg
                 stay == s1.nA >= kMinGallop \/ s1.nB >= kMinGallop
             IN  [s1 EXCEPT !.a = Put(s1.a, s1.cD, At(s1.m, s1.cA)),
                            !.cD = s1.cD + 1, !.cA = s1.cA + 1,
                            !.lA = s1.lA - 1,
                            !.mg = IF stay THEN mg1 ELSE mg1 + 1,
                            !.nA = IF stay THEN s1.nA ELSE 0,
                            !.nB = IF stay THEN s1.nB ELSE 0,
                            !.at = IF stay THEN "gallop" ELSE "pair"]
        : s1 \in {[s EXCEPT !.a = Overwrite(s.a, s.cD, Range(s.a, s.cB, g.p)),
                            !.cD = s.cD + (g.p - s.cB), !.cB = g.p,
                            !.lB = s.lB - (g.p - s.cB), !.nB = g.p - s.cB,
                            !.bad = @ \cup g.bad]} })
        : g \in {GallopLeft(s.a, c, s.cB, s.eB, s.cB, At(s.m, s.cA))} })

\* a faulty variant: the rest of the merge area is not copied back
MergeLowCopyAreaDropped(s) == [s EXCEPT !.at = "ret"]

\* LABEL_COPY_MERGE_AREA_TO_DEST
MergeLowCopyArea(s) ==
    Check([s EXCEPT !.a = Overwrite(s.a, s.cD, Range(s.m, s.cA, s.cA + s.lA)),
                    !.at = "ret"],
          s.lA > 0 /\ s.lB = 0, "MergeLow:copyArea")

\* a faulty variant: the last element of A is appended one position too far
MergeLowCopyBAppendPast(s) ==
    LET a1   == Overwrite(s.a, s.cD, Range(s.a, s.cB, s.cB + s.lB))
        dest == IF s.cD + s.lB + 1 < Len(s.a) THEN s.cD + s.lB + 1
                ELSE s.cD + s.lB
    IN  Check([s EXCEPT !.a = Put(a1, dest, At(s.m, s.cA)),
                        !.cD = s.cD + s.lB, !.at = "ret"],
              s.lA = 1 /\ s.lB > 0, "MergeLow:copyB")

\* LABEL_COPY_B_TO_DEST_AND_APPEND_A
MergeLowCopyB(s) ==
    LET a1 == Overwrite(s.a, s.cD, Range(s.a, s.cB, s.cB + s.lB))
    IN  Check([s EXCEPT !.a = Put(a1, s.cD + s.lB, At(s.m, s.cA)),
                        !.cD = s.cD + s.lB, !.at = "ret"],
              s.lA = 1 /\ s.lB > 0, "MergeLow:copyB")

RECURSIVE MergeLowLoop(_, _)
MergeLowLoop(s, c) ==
    IF s.at \in {"ret", "abort"} THEN s
    ELSE Only({ MergeLowLoop(t, c) : t \in {
             CASE s.at = "pair"     -> MergeLowPair(s, c)
               [] s.at = "gallop"   -> MergeLowGallopA(s, c)
               [] s.at = "gallopB"  -> MergeLowGallopB(s, c)
               [] s.at = "copyArea" -> MergeLowCopyArea(s)
               [] s.at = "copyB"    -> MergeLowCopyB(s)} })

\* the merge state after MergeLow: the statement storing minGallop back
\* (state.mMinGallop = minGallop) follows while (1) and is never reached
MergeLow(ms, firstA, lastA, firstB, lastB, c) ==
    LET lengthA == lastA - firstA
    IN  Only({ Only({
        IF s0.at = "abort"
        THEN [ms EXCEPT !.bad = @ \cup s0.bad, !.dead = TRUE]
        ELSE Only({
             [ms1 EXCEPT !.a = s.a, !.bad = @ \cup s.bad,
                         !.dead = (s.at = "abort"),
                         !.oob = IF lengthA > ms1.cap
                                 THEN @ \cup {"mMergeArea"} ELSE @,
                         !.log = Append(@, [op |-> "MergeLow", lenA |-> lengthA,
                                            lenB |-> lastB - firstB,
                                            cap |-> ms1.cap, mg |-> s.mg,
                                            steps |-> s.steps, gallops |-> s.gallops,
                                            at |-> s.at])]
             : s \in {MergeLowLoop(s0, c)} })
        : s0 \in {MergeLowEnter(ms1, firstA, lastA, firstB, lastB, c)} })
        : ms1 \in {EnsureMergeAreaSize(ms, lengthA)} })

\* a with the elements s written so that they end just before position e
\* (std::copy_backward)
OverwriteBackward(a, e, s) == Overwrite(a, e - Len(s), s)

MergeHighEnter(ms, firstA, lastA, firstB, lastB, c) ==
    LET lengthA == lastA - firstA
        lengthB == lastB - firstB
        pre == /\ 0 < lengthB /\ lengthA >= lengthB
               /\ lastA = firstB
               /\ Comp(c, At(ms.a, firstB), At(ms.a, firstA))
               /\ Comp(c, At(ms.a, lastB - 1), At(ms.a, lastA - 1))
        a1 == Put(ms.a, lastB - 1, At(ms.a, lastA - 1))
    IN  IF ~pre /\ (~ms.nd \/ lengthA <= 0 \/ lengthB <= 0 \/ lastA # firstB)
        THEN [a |-> ms.a, m |-> <<>>, cA |-> lastA - 1, cB |-> lengthB - 1,
              cD |-> lastB - 1, lA |-> lengthA, lB |-> lengthB,
              eA |-> firstA, eB |-> 0,
              mg |-> ms.mg, nA |-> 0, nB |-> 0, at |-> "abort",
              bad |-> {"MergeHigh:pre"}, nd |-> ms.nd, steps |-> 0, gallops |-> 0]
        ELSE [a |-> a1, m |-> Range(ms.a, firstB, lastB),
              cA |-> lastA - 2, cB |-> lengthB - 1, cD |-> lastB - 2,
              lA |-> lengthA - 1, lB |-> lengthB, eA |-> firstA, eB |-> 0,
              mg |-> ms.mg, nA |-> 0, nB |-> 0,
              at |-> IF lengthA - 1 = 0 THEN "copyArea"
                     ELSE IF lengthB = 1 THEN "copyA" ELSE "pair",
              bad |-> IF pre THEN {} ELSE {"MergeHigh:pre"},
              nd |-> ms.nd, steps |-> 0, gallops |-> 0]

\* one iteration of the one-pair-at-a-time loop, with its exit test
MergeHighPair(s, c) ==
    Only({
    IF t.at = "abort" THEN t
    ELSE IF Comp(c, At(t.m, t.cB), At(t.a, t.cA))
    THEN LET nA == t.nA + 1
         IN  [t EXCEPT !.a = Put(t.a, t.cD, At(t.a, t.cA)),
                       !.cD = t.cD - 1, !.cA = t.cA - 1, !.lA = t.lA - 1,
                       !.nA = nA, !.nB = 0, !.steps = t.steps + 1,
                       !.at = IF t.lA - 1 = 0 THEN "copyArea"
                              ELSE IF nA < t.mg THEN "pair" ELSE "gallop"]
    ELSE LET nB == t.nB + 1
         IN  [t EXCEPT !.a = Put(t.a, t.cD, At(t.m, t.cB)),
                       !.cD = t.cD - 1, !.cB = t.cB - 1, !.lB = t.lB - 1,
                       !.nA = 0, !.nB = nB, !.steps = t.steps + 1,
                       !.at = IF t.lB - 1 = 1 THEN "copyA"
                              ELSE IF nB < t.mg THEN "pair" ELSE "gallop"]
    : t \in {Check(s, s.lA > 0 \/ s.lB > 1, "MergeHigh:pair")} })

\* galloping mode, first half: the elements of A that go after *cursorB
MergeHighGallopA(s, c) ==
    Only({
    IF t.at = "abort" THEN t
    ELSE Only({ Only({
        IF g.bad # {} /\ ~s1.nd THEN [s1 EXCEPT !.at = "abort"]
        ELSE IF s1.nA # 0 /\ s1.lA = 0
        THEN Check([s1 EXCEPT !.at = "copyArea"], s1.lB > 0, "MergeHigh:Aempty")
        ELSE [s1 EXCEPT !.a = Put(s1.a, s1.cD, At(s1.m, s1.cB)),
                        !.cD = s1.cD - 1, !.cB = s1.cB - 1, !.lB = s1.lB - 1,
                        !.at = IF s1.lB - 1 = 1 THEN "copyA" ELSE "gallopB"]
        : s1 \in {[t EXCEPT !.a = OverwriteBackward(t.a, t.cD + 1,
                                                    Range(t.a, g.p, t.cA + 1)),
                            !.cD = t.cD - ((t.cA + 1) - g.p), !.cA = g.p - 1,
                            !.lA = t.lA - ((t.cA + 1) - g.p),
                            !.nA = (t.cA + 1) - g.p,
                            !.bad = @ \cup g.bad, !.steps = t.steps + 1,
                            !.gallops = t.gallops + 1]} })
        : g \in {GallopRight(t.a, c, t.eA, t.cA + 1, t.cA, At(t.m, t.cB))} })
    : t \in {Check(s, s.lA > 0 /\ s.lB > 1, "MergeHigh:gallop")} })

\* galloping mode, second half: the elements of B that go after *cursorA,
\* then the adaptation of minGallop and the exit test of the loop
MergeHighGallopB(s, c) ==
    Only({ Only({
        IF g.bad # {} /\ ~s1.nd THEN [s1 EXCEPT !.at = "abort"]
        ELSE IF s1.nB # 0 /\ s1.lB = 0
        THEN Check([s1 EXCEPT !.at = "ret"], s1.lA = 0, "MergeHigh:Bempty")
        ELSE IF s1.nB # 0 /\ s1.lB = 1 THEN [s1 EXCEPT !.at = "copyA"]
        ELSE IF s1.lA - 1 = 0
        THEN [s1 EXCEPT !.a = Put(s1.a, s1.cD, At(s1.a, s1.cA)),
                        !.cD = s1.cD - 1, !.cA = s1.cA - 1, !.lA = s1.lA - 1,
                        !.at = "copyArea"]
        ELSE LET mg1 == IF s1.mg > 1 THEN s1.mg - 1 ELSE s1.mg
                 stay == s1.nA >= kMinGallop \/ s1.nB >= kMinGallop
             IN  [s1 EXCEPT !.a = Put(s1.a, s1.cD, At(s1.a, s1.cA)),
                            !.cD = s1.cD - 1, !.cA = s1.cA - 1,
                            !.lA = s1.lA - 1,
                            !.mg = IF stay THEN mg1 ELSE mg1 + 1,
                            !.nA = IF stay THEN s1.nA ELSE 0,
                            !.nB = IF stay THEN s1.nB ELSE 0,
                            !.at = IF stay THEN "gallop" ELSE "pair"]
        : s1 \in {[s EXCEPT !.a = OverwriteBackward(s.a, s.cD + 1,
                                                    Range(s.m, g.p, s.cB + 1)),
                            !.cD = s.cD - ((s.cB + 1) - g.p), !.cB = g.p - 1,
                            !.lB = s.lB - ((s.cB + 1) - g.p),
                            !.nB = (s.cB + 1) - g.p,
                            !.bad = @ \cup g.bad]} })
        : g \in {GallopLeft(s.m, c, s.eB, s.cB + 1, s.cB, At(s.a, s.cA))} })

\* LABEL_COPY_MERGE_AREA_TO_DEST
MergeHighCopyArea(s) ==
    Check([s EXCEPT !.a = OverwriteBackward(s.a, s.cD + 1,
                                            Range(s.m, s.eB, s.cB + 1)),
                    !.at = "ret"],
          s.lA = 0 /\ s.lB > 0, "MergeHigh:copyArea")

\* LABEL_COPY_A_TO_DEST_AND_PREPEND_B
MergeHighCopyA(s) ==
    LET a1 == OverwriteBackward(s.a, s.cD + 1, Range(s.a, s.eA, s.cA + 1))
    IN  Check([s EXCEPT !.a = Put(a1, s.cD - s.lA, At(s.m, s.cB)),
                        !.cD = s.cD - s.lA, !.at = "ret"],
              s.lB = 1 /\ s.lA > 0, "MergeHigh:copyA")

RECURSIVE MergeHighLoop(_, _)
MergeHighLoop(s, c) ==
    IF s.at \in {"ret", "abort"} THEN s
    ELSE Only({ MergeHighLoop(t, c) : t \in {
             CASE s.at = "pair"     -> MergeHighPair(s, c)
               [] s.at = "gallop"   -> MergeHighGallopA(s, c)
               [] s.at = "gallopB"  -> MergeHighGallopB(s, c)
               [] s.at = "copyArea" -> MergeHighCopyArea(s)
               [] s.at = "copyA"    -> MergeHighCopyA(s)} })

\* the merge state after MergeHigh; as in MergeLow the statement storing
\* minGallop back is never reached
MergeHigh(ms, firstA, lastA, firstB, lastB, c) ==
    LET lengthB == lastB - firstB
    IN  Only({ Only({
        IF s0.at = "abort"
        THEN [ms EXCEPT !.bad = @ \cup s0.bad, !.dead = TRUE]
        ELSE Only({
             [ms1 EXCEPT !.a = s.a, !.bad = @ \cup s.bad,
                         !.dead = (s.at = "abort"),
                         !.oob = IF lengthB > ms1.cap
                                 THEN @ \cup {"mMergeArea"} ELSE @,
                         !.log = Append(@, [op |-> "MergeHigh",
                                            lenA |-> lastA - firstA,
                                            lenB |-> lengthB,
                                            cap |-> ms1.cap, mg |-> s.mg,
                                            steps |-> s.steps, gallops |-> s.gallops,
                                            at |-> s.at])]
             : s \in {MergeHighLoop(s0, c)} })
        : s0 \in {MergeHighEnter(ms1, firstA, lastA, firstB, lastB, c)} })
        : ms1 \in {EnsureMergeAreaSize(ms, lengthB)} })

-----------------------------------------------------------------------------
(* The operations below the driver *)

\* a faulty variant of the loop: the element is inserted at its lower bound
RECURSIVE BinaryInsertionLoopLowerBound(_, _, _, _, _)
BinaryInsertionLoopLowerBound(a, c, first, last, i) ==
    IF i < last
    THEN Only({ Only({ BinaryInsertionLoopLowerBound(a1, c, first, last, i + 1)
                       : a1 \in {Put(OverwriteBackward(a, i + 1, Range(a, j, i)),
                                     j, At(a, i))} })
                : j \in {lower_bound(a, c, first, i, At(a, i))} })
    ELSE a

\* the loop of BinaryInsertionSort from position i on
RECURSIVE BinaryInsertionLoop(_, _, _, _, _)
BinaryInsertionLoop(a, c, first, last, i) ==
    IF i < last
    THEN Only({ Only({ BinaryInsertionLoop(a1, c, first, last, i + 1)
                       : a1 \in {Put(OverwriteBackward(a, i + 1, Range(a, j, i)),
                                     j, At(a, i))} })
                : j \in {upper_bound(a, c, first, i, At(a, i))} })
    ELSE a

\* returns [a |-> the array, bad |-> the assertions that failed]
BinaryInsertionSort(a, c, first, last) ==
    IF ~(first < last)
    THEN [a |-> a, bad |-> {"BinaryInsertionSort:first<last"}]
    ELSE [a |-> BinaryInsertionLoop(a, c, first, last, first + 1), bad |-> {}]

\* the loop when it stops at kMaxMinRunLength instead of below it
RECURSIVE CalcMinRunLoopStrict(_, _)
CalcMinRunLoopStrict(n, bumper) ==
    IF n > kMaxMinRunLength
    THEN CalcMinRunLoopStrict(n \div 2, IF n % 2 = 1 THEN 1 ELSE bumper)
    ELSE n + bumper

\* the loop when the bits shifted out are forgotten
RECURSIVE CalcMinRunLoopNoBumper(_, _)
CalcMinRunLoopNoBumper(n, bumper) ==
    IF n >= kMaxMinRunLength
    THEN CalcMinRunLoopNoBumper(n \div 2, bumper)
    ELSE n + bumper

RECURSIVE CalcMinRunLoop(_, _)
CalcMinRunLoop(n, bumper) ==
    IF n >= kMaxMinRunLength
    THEN CalcMinRunLoop(n \div 2, IF n % 2 = 1 THEN 1 ELSE bumper)
    ELSE n + bumper

\* the value returned; the assertion n > 0 is checked by the caller's action
CalcMinRunLength(n) == CalcMinRunLoop(n, 0)

\* the loop of ReverseRun, entered with last already decremented
RECURSIVE ReverseLoop(_, _, _)
ReverseLoop(a, first, last) ==
    IF first < last
    THEN Only({ ReverseLoop(a1, first + 1, last - 1)
                : a1 \in {Put(Put(a, first, At(a, last)), last, At(a, first))} })
    ELSE a

ReverseRun(a, first, last) == ReverseLoop(a, first, last - 1)

\* while (++p < last && comp(*p, *(p - 1)) == desc) {}: the p it ends with,
\* entered with p already incremented
RunEnd(a, c, last, p, desc) ==
    Only({ CHOOSE q \in stops : \A r \in stops : q <= r
           : stops \in {{q \in p..last :
                           q = last \/ (Comp(c, At(a, q), At(a, q - 1)) # desc)}} })

\* the direction of the run: the source decides it with the element type's
\* own <=, not with comp
IsAscending(a, c, p) == BuiltinLe(At(a, p - 1), At(a, p))

\* a faulty variant: a descending run is found but left as it is
DetectRunWithoutReversal(a, c, first, last) ==
    IF first >= last THEN [a |-> a, p |-> first]
    ELSE IF first + 1 >= last THEN [a |-> a, p |-> first + 1]
    ELSE [a |-> a, p |-> RunEnd(a, c, last, first + 2, ~IsAscending(a, c, first + 1))]

\* returns [a |-> the array, p |-> the position returned]
DetectRunAndMakeAscending(a, c, first, last) ==
    IF first >= last THEN [a |-> a, p |-> first]
    ELSE IF first + 1 >= last THEN [a |-> a, p |-> first + 1]
    ELSE IF IsAscending(a, c, first + 1)
         THEN [a |-> a, p |-> RunEnd(a, c, last, first + 2, FALSE)]
         ELSE Only({ [a |-> ReverseRun(a, first, p), p |-> p]
                     : p \in {RunEnd(a, c, last, first + 2, TRUE)} })

\* Run::GetLength of the stack entry at slot i
GetLength(ms, i) == ms.stack[i + 1].last - ms.stack[i + 1].first

\* a faulty variant: the top entry is not moved down
AdjustStackTopLeft(stack, num, stackPos) ==
    LET merged == [first |-> stack[stackPos + 1].first,
                   last  |-> stack[stackPos + 2].last]
    IN  IF stackPos = num - 3
        THEN SubSeq(stack, 1, stackPos) \o <<merged, stack[stackPos + 2]>>
        ELSE SubSeq(stack, 1, stackPos) \o <<merged>>

\* "Adjust the stack entries": entry stackPos absorbs both runs; with
\* stackPos == mNumRunInStack - 3 the top entry moves down one slot.  The
\* entries that are left are the first mNumRunInStack - 1.
AdjustStack(stack, num, stackPos) ==
    LET merged == [first |-> stack[stackPos + 1].first,
                   last  |-> stack[stackPos + 2].last]
    IN  IF stackPos = num - 3
        THEN SubSeq(stack, 1, stackPos) \o <<merged, stack[stackPos + 3]>>
        ELSE SubSeq(stack, 1, stackPos) \o <<merged>>

\* TryMerge and ForceMerge, the only callers, pass mNumRunInStack - 2 or - 3
\* and runs that are not empty: the first assertion and those on the hints
\* of the two gallops hold in every call, and what a build with NDEBUG does
\* past them is not modelled.
MergeAt(ms, stackPos, c) ==
    IF ~(stackPos = ms.num - 2 \/ stackPos = ms.num - 3)
    THEN [ms EXCEPT !.bad = @ \cup {"MergeAt:stackPos"}, !.dead = TRUE,
                    !.log = Append(@, [op |-> "MergeAt", stackPos |-> stackPos,
                                       num |-> ms.num, stack |-> ms.stack])]
    ELSE
    LET firstA == ms.stack[stackPos + 1].first
        lastA  == ms.stack[stackPos + 1].last
        firstB == ms.stack[stackPos + 2].first
        lastB  == ms.stack[stackPos + 2].last
        stack1 == AdjustStack(ms.stack, ms.num, stackPos)
    IN  Only({ Only({
        IF gA.bad # {} THEN [ms1 EXCEPT !.bad = @ \cup gA.bad, !.dead = TRUE]
        ELSE IF lastA - gA.p = 0 THEN ms1
        ELSE Only({
             IF gB.bad # {} THEN [ms1 EXCEPT !.bad = @ \cup gB.bad, !.dead = TRUE]
             ELSE IF gB.p - firstB = 0 THEN ms1
             ELSE IF lastA - gA.p <= gB.p - firstB
                  THEN MergeLow(ms1, gA.p, lastA, firstB, gB.p, c)
                  ELSE MergeHigh(ms1, gA.p, lastA, firstB, gB.p, c)
             : gB \in {GallopLeft(ms.a, c, firstB, lastB, lastB - 1,
                                  At(ms.a, lastA - 1))} })
        : gA \in {GallopRight(ms.a, c, firstA, lastA, firstA, At(ms.a, firstB))} })
        : ms1 \in {[ms EXCEPT !.stack = stack1, !.num = ms.num - 1,
                               !.log = Append(@, [op |-> "MergeAt",
                                                  stackPos |-> stackPos,
                                                  num |-> ms.num,
                                                  stack |-> ms.stack])]} })

\* a variant: the second test compares the run with the one above it
TryMergeSecondTestWithAbove(ms, pos) ==
    GetLength(ms, pos) <= GetLength(ms, pos + 1)

\* a faulty variant: the second test never asks for a merge
TryMergeSecondTestNever(ms, pos) == FALSE

\* the second test of TryMerge as the source writes it: it compares the
\* length of mStack[pos] with itself
TryMergeSecondTest(ms, pos) == GetLength(ms, pos) <= GetLength(ms, pos)

\* a faulty variant: one merge at most, an if in place of the while
TryMergeOnce(ms, c) ==
    IF ms.num > 1 /\ ~ms.dead THEN MergeAt(ms, ms.num - 2, c) ELSE ms

RECURSIVE TryMerge(_, _)
TryMerge(ms, c) ==
    IF ms.num > 1 /\ ~ms.dead
    THEN LET pos == ms.num - 2
         IN  IF pos > 0 /\ GetLength(ms, pos - 1)
                             <= GetLength(ms, pos) + GetLength(ms, pos + 1)
             THEN LET pos1 == IF GetLength(ms, pos - 1) < GetLength(ms, pos + 1)
                              THEN pos - 1 ELSE pos
                  IN  Only({ TryMerge(t, c) : t \in {MergeAt(ms, pos1, c)} })
             ELSE IF TryMergeSecondTest(ms, pos)
             THEN Only({ TryMerge(t, c) : t \in {MergeAt(ms, pos, c)} })
             ELSE ms
    ELSE ms

\* ForceMerge reads mStack[pos - 1] before it tests pos > 0: with two runs
\* left that is slot -1, outside the array.  Whatever the read yields,
\* pos > 0 is false and pos stays 0.
RECURSIVE ForceMerge(_, _)
ForceMerge(ms, c) ==
    IF ms.num > 1 /\ ~ms.dead
    THEN LET pos  == ms.num - 2
             pos1 == IF pos > 0 /\ GetLength(ms, pos - 1) < GetLength(ms, pos + 1)
                     THEN pos - 1 ELSE pos
         IN  Only({ Only({ ForceMerge(t, c) : t \in {MergeAt(ms1, pos1, c)} })
                    : ms1 \in {IF pos - 1 < 0
                               THEN [ms EXCEPT !.oob = @ \cup {"mStack[-1]"}]
                               ELSE ms} })
    ELSE ms

-----------------------------------------------------------------------------
(* The inputs of TimSort *)

SmallInputs == UNION {[1..n -> Elements] : n \in 0..MaxLen}

PatternKinds == {"saw", "rsaw", "blk", "rblk", "mod", "dip"}

PatternKey(kind, p, i) ==
    CASE kind = "saw"  -> 1 + (i % p)
      [] kind = "rsaw" -> p - (i % p)
      [] kind = "blk"  -> 1 + ((i \div p) % 2)
      [] kind = "rblk" -> 2 - ((i \div p) % 2)
      [] kind = "mod"  -> 1 + ((i * p) % 7)
      [] kind = "dip"  -> IF i % p = 0 THEN 0 ELSE p - (i % p)

Pattern(kind, p, n) == [i \in 1..n |-> <<PatternKey(kind, p, i - 1), i % 2>>]

LargeLens == {kMaxMinRunLength + d : d \in 0..MaxExtra}
             \cup {2 * kMaxMinRunLength + d : d \in 0..MaxExtra}

LargeInputs ==
    {Pattern(kind, p, n) : kind \in PatternKinds, p \in 1..MaxPeriod, n \in LargeLens}

\* run lengths above the initial reservation of the merge area
WideLens == {kInitMergeAreaSize + 1 + d : d \in 0..MaxExtra}

\* two natural runs, the second wholly below the first, so that nothing is
\* trimmed off either; one of them may be three times as long as the other
WideInputs ==
    {[i \in 1..(nA + nB) |-> IF i <= nA THEN <<2, 0>> ELSE <<1, 0>>] :
     nA \in WideLens \cup {3 * w : w \in WideLens},
     nB \in WideLens \cup {3 * w : w \in WideLens}}

SortInputs == SmallInputs \cup LargeInputs \cup WideInputs

NoRun == [first |-> 0, last |-> 0]

NoElem == <<0, 0>>

-----------------------------------------------------------------------------
(* TimSort(first, last, compare): the driver TimSortImpl::Sort, one action *)
(* per statement group of its loop.  first is 0 and last is Len(arr).      *)
(* pc: "Sort" called; "loop" at the loop test; "detected" after            *)
(* DetectRunAndMakeAscending; "boosted" after the boost; "pushed" after    *)
(* the push; "merged" after TryMerge; "done" returned; "abort" stopped by  *)
(* a failed assertion.                                                     *)

Last == Len(arr)

\* the merge state as a record, from the variables
State == [a |-> arr, stack |-> mStack, num |-> mNumRunInStack, mg |-> mMinGallop,
          cap |-> mergeCap, n |-> mArraySize, bad |-> {}, oob |-> {},
          nd |-> ndebug, dead |-> FALSE, log |-> <<>>]

\* the variables after an operation on the merge state that returned ms,
\* continuing at position to
Store(ms, to) ==
    /\ arr' = ms.a
    /\ mStack' = ms.stack
    /\ mNumRunInStack' = ms.num
    /\ mMinGallop' = ms.mg
    /\ mergeCap' = ms.cap
    /\ fail' = fail \cup ms.bad
    /\ oob' = oob \cup ms.oob
    /\ log' = log \o ms.log
    /\ pc' = IF ms.dead THEN "abort" ELSE to

Init ==
    /\ arr \in SortInputs
    /\ comp \in Comparators
    /\ input = arr
    /\ pc = "Sort"
    /\ mArraySize = 0
    /\ mNumRunInStack = 0
    /\ mStack = <<>>
    /\ mMinGallop = kMinGallop
    /\ mergeCap = 0
    /\ minRunLength = 0
    /\ next = 0
    /\ run = NoRun
    /\ fail = {}
    /\ oob = {}
    /\ hint = 0
    /\ value = NoElem
    /\ result = 0
    /\ pivot = 0
    /\ ndebug \in BOOLEAN
    /\ log = <<>>

\* the statements before the loop: numElems, CalcMinRunLength (whose
\* assertion n > 0 either stops the program or, compiled out, does nothing)
\* and the construction of the merge state
SortBegin ==
    /\ pc = "Sort"
    /\ LET numElems == Last
           ms == MergeStateInit(arr, numElems, ndebug)
       IN  /\ minRunLength' = CalcMinRunLength(numElems)
           /\ mArraySize' = ms.n
           /\ mNumRunInStack' = ms.num
           /\ mStack' = ms.stack
           /\ mMinGallop' = ms.mg
           /\ mergeCap' = ms.cap
           /\ next' = 0
           /\ IF numElems > 0
              THEN pc' = "loop" /\ fail' = fail
              ELSE /\ fail' = fail \cup {"CalcMinRunLength:n>0"}
                   /\ pc' = IF ndebug THEN "loop" ELSE "abort"
    /\ UNCHANGED <<arr, input, comp, run, oob, hint, value, result, pivot,
                   ndebug, log>>

\* run.first = next; run.last = DetectRunAndMakeAscending(next, last, comp)
SortDetect ==
    /\ pc = "loop"
    /\ next < Last
    /\ \E d \in {DetectRunAndMakeAscending(arr, comp, next, Last)} :
           /\ arr' = d.a
           /\ run' = [first |-> next, last |-> d.p]
    /\ pc' = "detected"
    /\ UNCHANGED <<input, comp, mArraySize, mNumRunInStack, mStack, mMinGallop,
                   mergeCap, minRunLength, next, fail, oob, hint, value,
                   result, pivot, ndebug, log>>

\* a variant: a short run is extended to the end of the input
SortBoostToTheEnd ==
    /\ pc = "detected"
    /\ LET numRemainElems == Last - next
           realRunLength  == run.last - run.first
           boost == realRunLength < minRunLength /\ realRunLength < numRemainElems
       IN  \E b \in {IF boost
                     THEN BinaryInsertionSort(arr, comp, run.first,
                                              run.first + numRemainElems)
                     ELSE [a |-> arr, bad |-> {}]} :
           /\ run' = IF boost THEN [run EXCEPT !.last = run.first + numRemainElems]
                     ELSE run
           /\ arr' = IF boost THEN b.a ELSE arr
           /\ fail' = fail \cup (IF boost THEN b.bad ELSE {})
           /\ pc' = IF ~boost \/ b.bad = {} \/ ndebug THEN "boosted" ELSE "abort"
           /\ log' = Append(log, [op |-> "run", first |-> run.first,
                                  natural |-> realRunLength,
                                  remaining |-> numRemainElems,
                                  sorted |-> boost])
    /\ UNCHANGED <<input, comp, mArraySize, mNumRunInStack, mStack, mMinGallop,
                   mergeCap, minRunLength, next, oob, hint, value, result, pivot, ndebug>>

\* the boost of a short run by BinaryInsertionSort
SortBoost ==
    /\ pc = "detected"
    /\ LET numRemainElems == Last - next
           realRunLength  == run.last - run.first
           boost == realRunLength < minRunLength /\ realRunLength < numRemainElems
           newLength == IF minRunLength < numRemainElems
                        THEN minRunLength ELSE numRemainElems
       IN  \E b \in {IF boost
                     THEN BinaryInsertionSort(arr, comp, run.first,
                                              run.first + newLength)
                     ELSE [a |-> arr, bad |-> {}]} :
           \E bad \in {IF boost
                       THEN b.bad \cup (IF run.first + newLength <= Last THEN {}
                                        ELSE {"Sort:run.last<=last"})
                       ELSE {}} :
           /\ run' = IF boost THEN [run EXCEPT !.last = run.first + newLength]
                     ELSE run
           /\ arr' = IF boost THEN b.a ELSE arr
           /\ fail' = fail \cup bad
           /\ pc' = IF bad = {} \/ ndebug THEN "boosted" ELSE "abort"
           /\ log' = Append(log, [op |-> "run", first |-> run.first,
                                  natural |-> realRunLength,
                                  remaining |-> numRemainElems,
                                  sorted |-> boost])
    /\ UNCHANGED <<input, comp, mArraySize, mNumRunInStack, mStack, mMinGallop,
                   mergeCap, minRunLength, next, oob, hint, value, result, pivot, ndebug>>

\* the push of the run; the assertion compares the stack depth with
\* kMaxMinRunLength
SortPush ==
    /\ pc = "boosted"
    /\ mNumRunInStack < kMaxMergeStackSize
    /\ mStack' = Append(mStack, run)
    /\ mNumRunInStack' = mNumRunInStack + 1
    /\ log' = Append(log, [op |-> "push", first |-> run.first, last |-> run.last,
                           slot |-> mNumRunInStack])
    /\ IF mNumRunInStack < kMaxMinRunLength
       THEN pc' = "pushed" /\ fail' = fail
       ELSE /\ fail' = fail \cup {"Sort:mNumRunInStack"}
            /\ pc' = IF ndebug THEN "pushed" ELSE "abort"
    /\ UNCHANGED <<arr, input, comp, mArraySize, mMinGallop, mergeCap,
                   minRunLength, next, run, oob, hint, value, result, pivot, ndebug>>

SortTryMerge ==
    /\ pc = "pushed"
    /\ \E ms \in {TryMerge(State, comp)} : Store(ms, "merged")
    /\ UNCHANGED <<input, comp, mArraySize, minRunLength, next, run, hint,
                   value, result, pivot, ndebug>>

\* a variant: the position goes back to the start of the run
SortAdvanceStay ==
    /\ pc = "merged"
    /\ next' = run.first
    /\ pc' = "loop"
    /\ UNCHANGED <<arr, input, comp, mArraySize, mNumRunInStack, mStack,
                   mMinGallop, mergeCap, minRunLength, run, fail, oob, hint,
                   value, result, pivot, ndebug, log>>

\* next = run.last
SortAdvance ==
    /\ pc = "merged"
    /\ next' = run.last
    /\ pc' = "loop"
    /\ UNCHANGED <<arr, input, comp, mArraySize, mNumRunInStack, mStack,
                   mMinGallop, mergeCap, minRunLength, run, fail, oob, hint,
                   value, result, pivot, ndebug, log>>

\* the loop has ended: ForceMerge when the stack is not empty, then return
SortFinish ==
    /\ pc = "loop"
    /\ ~(next < Last)
    /\ IF mNumRunInStack # 0
       THEN \E ms \in {ForceMerge(State, comp)} : Store(ms, "done")
       ELSE /\ pc' = "done"
            /\ UNCHANGED <<arr, mStack, mNumRunInStack, mMinGallop, mergeCap,
                           fail, oob, log>>
    /\ UNCHANGED <<input, comp, mArraySize, minRunLength, next, run, hint,
                   value, result, pivot, ndebug>>

Next ==
    \/ SortBegin
    \/ SortDetect
    \/ SortBoost
    \/ SortPush
    \/ SortTryMerge
    \/ SortAdvance
    \/ SortFinish

Spec == Init /\ [][Next]_vars

-----------------------------------------------------------------------------
(* Properties of TimSort *)

\* a is weakly ascending under c: no adjacent pair is out of order
IsSortedBy(c, a) == \A i \in 1..(Len(a) - 1) : ~Comp(c, a[i + 1], a[i])

Occurrences(a, e) == Cardinality({i \in 1..Len(a) : a[i] = e})

\* a and b hold the same elements, each as many times
IsPermutation(a, b) ==
    /\ Len(a) = Len(b)
    /\ \A e \in {a[i] : i \in 1..Len(a)} : Occurrences(a, e) = Occurrences(b, e)

\* x and y are equal under c
Equivalent(c, x, y) == ~Comp(c, x, y) /\ ~Comp(c, y, x)

\* the elements of a that are equal to e under c, in their order in a
EqualTo(c, a, e) == SelectSeq(a, LAMBDA x : Equivalent(c, x, e))

\* out keeps the order that elements equal under c have in in
IsStable(c, in, out) ==
    \A e \in {in[i] : i \in 1..Len(in)} : EqualTo(c, out, e) = EqualTo(c, in, e)

Merges == {i \in 1..Len(log) : log[i].op \in {"MergeLow", "MergeHigh"}}

\* C1: for every non-empty input, after TimSort with the default less-than
\* order every adjacent pair of the range satisfies v[i] <= v[i+1].
C1_SortedByDefaultOrder ==
    (pc = "done" /\ comp = "less" /\ Len(input) > 0)
        => \A i \in 1..(Len(arr) - 1) : BuiltinLe(arr[i], arr[i + 1])

\* a sort under the default order that has returned after merging two runs
\* in gallop mode, and has changed the range
C1_Witness ==
    /\ pc = "done" /\ comp = "less" /\ fail = {}
    /\ arr # input
    /\ \E i \in Merges : log[i].mg # kMinGallop

\* C2: for every comparator less and every non-empty input, after
\* TimSort(first, last, less) there is no index i with less(v[i+1], v[i]).
C2_SortedByComparator ==
    (pc = "done" /\ Len(input) > 0) => IsSortedBy(comp, arr)

\* C3: TimSort is stable: two elements that are equal under less appear in
\* the output in the same relative order as in the input.
C3_Stable ==
    (pc = "done" /\ Len(input) > 0) => IsStable(comp, input, arr)

\* C4: for every input and every comparator, the multiset of the elements of
\* the range after TimSort equals the multiset before the call.
C4_MultisetPreserved == pc = "done" => IsPermutation(arr, input)

\* a sort that has returned after a reversal or an insertion sort, a
\* MergeLow and a MergeHigh, under a comparator other than the default
C4_Witness ==
    /\ pc = "done" /\ comp # "less"
    /\ arr # input
    /\ \E i \in Merges : log[i].op = "MergeLow"
    /\ \E i \in Merges : log[i].op = "MergeHigh"

\* C5: TimSort on an empty range returns normally with no assertion of the
\* implementation failing and no element accessed; on a single-element
\* range it returns with the element unchanged.
C5_EmptyOrSingle ==
    Len(input) <= 1 => /\ pc # "abort"
                       /\ fail = {}
                       /\ oob = {}
                       /\ arr = input

-----------------------------------------------------------------------------
(* Calls of single operations, as the unit tests of timsort_ut.cpp make   *)
(* them: one operation applied to a range prepared for it.                 *)

\* the variables a call of a single operation does not use
UnitIdle(a, c) ==
    /\ arr = a
    /\ input = a
    /\ comp = c
    /\ mArraySize = Len(a)
    /\ mMinGallop = kMinGallop
    /\ mergeCap = kInitMergeAreaSize
    /\ minRunLength = 0
    /\ next = 0
    /\ run = NoRun
    /\ fail = {}
    /\ oob = {}
    /\ ndebug = FALSE
    /\ log = <<>>

\* the key sequences of length n over 1..k that never descend
RECURSIVE NonDescending(_, _)
NonDescending(n, k) ==
    IF n = 0 THEN {<<>>}
    ELSE UNION {{Append(f, x) : x \in (IF f = <<>> THEN 1 ELSE f[Len(f)])..k}
                : f \in NonDescending(n - 1, k)}

Reverse(a) == [i \in 1..Len(a) |-> a[Len(a) + 1 - i]]

\* a range with the keys f that is weakly ascending under c.  Under the
\* key-only order the tags alternate; under the other two they follow the
\* order.
Ascending(c, f) ==
    LET n == Len(f)
    IN  CASE c = "keyless" -> [i \in 1..n |-> <<f[i], i % 2>>]
          [] c = "less"    -> [i \in 1..n |-> <<f[i], IF 2 * i > n THEN 1 ELSE 0>>]
          [] c = "greater" -> Reverse([i \in 1..n |->
                                          <<f[i], IF 2 * i > n THEN 1 ELSE 0>>])

-----------------------------------------------------------------------------
(* TestGallop: GallopLeft and GallopRight on a whole weakly ascending      *)
(* range, from every hint and for values from below the least element to   *)
(* above the greatest.                                                     *)

MaxGallopLen == 2 * MaxLen

GallopValues == (0..(MaxKey + 1)) \X Subs

InitGallop ==
    /\ \E c \in Comparators, n \in 1..MaxGallopLen :
           \E f \in NonDescending(n, MaxKey) : UnitIdle(Ascending(c, f), c)
    /\ hint \in 0..(Len(arr) - 1)
    /\ value \in GallopValues
    /\ result = 0
    /\ pivot = 0
    /\ mNumRunInStack = 0
    /\ mStack = <<>>
    /\ pc = "call"

GallopLeftCall ==
    /\ pc = "call"
    /\ \E g \in {GallopLeft(arr, comp, 0, Last, hint, value)} :
           /\ result' = g.p
           /\ fail' = fail \cup g.bad
    /\ pc' = "GallopLeft"
    /\ UNCHANGED <<arr, input, comp, mArraySize, mNumRunInStack, mStack,
                   mMinGallop, mergeCap, minRunLength, next, run, oob, hint,
                   value, pivot, ndebug, log>>

GallopRightCall ==
    /\ pc = "call"
    /\ \E g \in {GallopRight(arr, comp, 0, Last, hint, value)} :
           /\ result' = g.p
           /\ fail' = fail \cup g.bad
    /\ pc' = "GallopRight"
    /\ UNCHANGED <<arr, input, comp, mArraySize, mNumRunInStack, mStack,
                   mMinGallop, mergeCap, minRunLength, next, run, oob, hint,
                   value, pivot, ndebug, log>>

NextGallop == GallopLeftCall \/ GallopRightCall

SpecGallop == InitGallop /\ [][NextGallop]_vars

\* the leftmost position of a whose element satisfies P, or Len(a)
Leftmost(a, P(_)) ==
    LET S == {p \in 0..(Len(a) - 1) : P(At(a, p))}
    IN  IF S = {} THEN Len(a) ELSE CHOOSE p \in S : \A q \in S : p <= q

NotLessThanValue(x) == ~Comp(comp, x, value)

GreaterThanValue(x) == Comp(comp, value, x)

\* C7: on a non-empty weakly ascending range, for every value and every hint
\* in the range, GallopLeft returns the position lower_bound returns, the
\* leftmost p with !less(*p, value) or last, and GallopRight the position
\* upper_bound returns, the leftmost p with less(value, *p) or last.
C7_GallopIsBound ==
    /\ pc = "GallopLeft" =>
           /\ fail = {}
           /\ result = lower_bound(arr, comp, 0, Last, value)
           /\ result = Leftmost(arr, NotLessThanValue)
    /\ pc = "GallopRight" =>
           /\ fail = {}
           /\ result = upper_bound(arr, comp, 0, Last, value)
           /\ result = Leftmost(arr, GreaterThanValue)

\* GallopLeft from the last element of a longest range has galloped down
\* over more than two windows to the first of several elements equal to the
\* value
C7_Witness ==
    /\ pc = "GallopLeft"
    /\ Last = MaxGallopLen
    /\ hint = Last - 1
    /\ 0 < result /\ result < hint - 3
    /\ Equivalent(comp, At(arr, result), value)
    /\ Equivalent(comp, At(arr, result + 1), value)

-----------------------------------------------------------------------------
(* TestInsertionSort: BinaryInsertionSort on a whole range in any order *)

InitInsertion ==
    /\ \E c \in Comparators, a \in SmallInputs \ {<<>>} : UnitIdle(a, c)
    /\ hint = 0
    /\ value = NoElem
    /\ result = 0
    /\ pivot = 0
    /\ mNumRunInStack = 0
    /\ mStack = <<>>
    /\ pc = "call"

BinaryInsertionSortCall ==
    /\ pc = "call"
    /\ \E b \in {BinaryInsertionSort(arr, comp, 0, Last)} :
           /\ arr' = b.a
           /\ fail' = fail \cup b.bad
    /\ pc' = "BinaryInsertionSort"
    /\ UNCHANGED <<input, comp, mArraySize, mNumRunInStack, mStack, mMinGallop,
                   mergeCap, minRunLength, next, run, oob, hint, value, result,
                   pivot, ndebug, log>>

NextInsertion == BinaryInsertionSortCall

SpecInsertion == InitInsertion /\ [][NextInsertion]_vars

\* C10: BinaryInsertionSort on any non-empty range leaves it weakly
\* ascending under less, a permutation of its input, and stable.
C10_InsertionSort ==
    pc = "BinaryInsertionSort" =>
        /\ fail = {}
        /\ IsSortedBy(comp, arr)
        /\ IsPermutation(arr, input)
        /\ IsStable(comp, input, arr)

\* a longest range, out of order, holding different elements that are equal
\* under the key-only order, has been sorted
C10_Witness ==
    /\ pc = "BinaryInsertionSort"
    /\ comp = "keyless"
    /\ Len(input) = MaxLen
    /\ ~IsSortedBy(comp, input)
    /\ \E i, j \in 1..Len(input) :
           i < j /\ Key(input[i]) = Key(input[j]) /\ Sub(input[i]) > Sub(input[j])

-----------------------------------------------------------------------------
(* TestMerge: MergeLow or MergeHigh on two adjacent weakly ascending runs   *)
(* A = [0, pivot) and B = [pivot, last), the first element of B before the *)
(* first of A and the last element of B before the last of A under comp.   *)
(* The elements of A carry the tag 0, those of B the tag 1.                *)

MaxMergeLen == MaxLen + kMinGallop

MergeKeys == MaxKey + 1

\* the runs of each length, weakly ascending by key
MergeRuns == [n \in 1..(MaxMergeLen - 1) |-> NonDescending(n, MergeKeys)]

\* the run with the keys f and the tag t, weakly ascending under c
Tagged(c, f, t) ==
    IF c = "greater" THEN Reverse([i \in 1..Len(f) |-> <<f[i], t>>])
    ELSE [i \in 1..Len(f) |-> <<f[i], t>>]

\* every pair of short runs
ShortPairs ==
    UNION {MergeRuns[nA] \X MergeRuns[nB] :
           nA \in 1..(MaxMergeLen - 1), nB \in 1..(MaxMergeLen - 1)}

LongRunLens == {3 * kMinGallop + d : d \in 0..MaxExtra}

\* n keys in blocks of p equal keys, the first block with the key k
Blocks(n, p, k) == [i \in 1..n |-> k + ((i - 1) \div p)]

\* pairs of long runs in blocks, the blocks of B one key below those of A:
\* with blocks of kMinGallop and more the merge stays in galloping mode
LongPairs ==
    {<<Blocks(nA, p, 2), Blocks(nB, p, 1)>> :
     nA \in LongRunLens, nB \in LongRunLens, p \in 1..MaxPeriod}

MergePairs ==
    {fs \in ShortPairs : Len(fs[1]) + Len(fs[2]) <= MaxMergeLen} \cup LongPairs

InitMerge ==
    /\ \E c \in Comparators, fs \in MergePairs :
       \E a \in {Tagged(c, fs[1], 0) \o Tagged(c, fs[2], 1)} :
       \E nA \in {Len(fs[1])} :
           /\ Comp(c, At(a, nA), At(a, 0))
           /\ Comp(c, At(a, Len(a) - 1), At(a, nA - 1))
           /\ UnitIdle(a, c)
           /\ pivot = nA
    /\ hint = 0
    /\ value = NoElem
    /\ result = 0
    /\ mNumRunInStack = 0
    /\ mStack = <<>>
    /\ pc = "call"

MergeLowCall ==
    /\ pc = "call"
    /\ pivot <= Last - pivot
    /\ \E ms \in {MergeLow(State, 0, pivot, pivot, Last, comp)} :
           Store(ms, "MergeLow")
    /\ UNCHANGED <<input, comp, mArraySize, minRunLength, next, run, hint,
                   value, result, pivot, ndebug>>

MergeHighCall ==
    /\ pc = "call"
    /\ pivot >= Last - pivot
    /\ \E ms \in {MergeHigh(State, 0, pivot, pivot, Last, comp)} :
           Store(ms, "MergeHigh")
    /\ UNCHANGED <<input, comp, mArraySize, minRunLength, next, run, hint,
                   value, result, pivot, ndebug>>

NextMerge == MergeLowCall \/ MergeHighCall

SpecMerge == InitMerge /\ [][NextMerge]_vars

\* C6: given two adjacent non-empty weakly ascending runs A and B with
\* less(*firstB, *firstA) and less(*(lastB-1), *(lastA-1)), MergeLow (when
\* |A| <= |B|) and MergeHigh (when |A| >= |B|) leave the range weakly
\* ascending, a permutation of A and B, with every element of A before every
\* element of B that is equal to it under less.
C6_StableMerge ==
    pc \in {"MergeLow", "MergeHigh"} =>
        /\ fail = {}
        /\ oob = {}
        /\ IsSortedBy(comp, arr)
        /\ IsPermutation(arr, input)
        /\ \A i, j \in 1..Len(arr) :
               (i < j /\ Equivalent(comp, arr[i], arr[j]))
                   => ~(Sub(arr[i]) = 1 /\ Sub(arr[j]) = 0)
        /\ IsStable(comp, input, arr)

\* MergeLow has merged two runs that hold elements equal under the key-only
\* order, more than one round of it in galloping mode
C6_Witness ==
    /\ pc = "MergeLow"
    /\ comp = "keyless"
    /\ \E i \in Merges : log[i].gallops > 1 /\ log[i].mg < kMinGallop
    /\ \E i \in 1..pivot : \E j \in (pivot + 1)..Len(input) :
           Key(input[i]) = Key(input[j])

-----------------------------------------------------------------------------
(* TestTryMerge: the merge stack is filled with adjacent runs, each weakly *)
(* ascending, that cover the range; then TryMerge is called once.          *)

MaxRuns == MaxLen - 1

MaxRunLen == MaxLen - 1

MaxCovered == 2 * MaxLen - 1

RECURSIVE Sum(_, _)
Sum(f, n) == IF n = 0 THEN 0 ELSE f[n] + Sum(f, n - 1)

\* the keys of a run of length l: z times the least key, then the greatest
TwoKeys(l, z) == [i \in 1..l |-> IF i <= z THEN 1 ELSE MaxKey]

\* the first n of the runs, one after the other
RECURSIVE RunsUpTo(_, _, _, _)
RunsUpTo(c, lens, cuts, n) ==
    IF n = 0 THEN <<>>
    ELSE RunsUpTo(c, lens, cuts, n - 1) \o Ascending(c, TwoKeys(lens[n], cuts[n]))

\* the stack entries of the runs
RunStack(lens) ==
    [j \in 1..Len(lens) |-> [first |-> Sum(lens, j - 1), last |-> Sum(lens, j)]]

InitTryMerge ==
    /\ \E c \in Comparators, k \in 1..MaxRuns :
       \E lens \in [1..k -> 1..MaxRunLen], cuts \in [1..k -> 0..MaxRunLen] :
           /\ Sum(lens, k) <= MaxCovered
           /\ \A j \in 1..k : cuts[j] <= lens[j]
           /\ UnitIdle(RunsUpTo(c, lens, cuts, k), c)
           /\ mStack = RunStack(lens)
           /\ mNumRunInStack = k
    /\ hint = 0
    /\ value = NoElem
    /\ result = 0
    /\ pivot = 0
    /\ pc = "call"

TryMergeCall ==
    /\ pc = "call"
    /\ \E ms \in {TryMerge(State, comp)} : Store(ms, "TryMerge")
    /\ UNCHANGED <<input, comp, mArraySize, minRunLength, next, run, hint,
                   value, result, pivot, ndebug>>

NextTryMerge == TryMergeCall

SpecTryMerge == InitTryMerge /\ [][NextTryMerge]_vars

-----------------------------------------------------------------------------
(* TestCalcMinRunLength: CalcMinRunLength on a size n >= 1, next to the    *)
(* computation the test compares it with.                                  *)

\* the sizes CalcMinRunLength is called with are 1..MaxSize
MaxSize == 2048

\* TimSortUT::CalcMinRunLength, the computation of the test: the size is
\* shifted right while it is kMaxMinRunLength or more, and any bit shifted
\* out is kept in sBumper
RECURSIVE GoldMinRunLoop(_, _)
GoldMinRunLoop(sMinRun, sBumper) ==
    IF sMinRun >= kMaxMinRunLength
    THEN GoldMinRunLoop(sMinRun \div 2,
                        IF sMinRun % 2 = 1 \/ sBumper = 1 THEN 1 ELSE 0)
    ELSE sMinRun + sBumper

GoldMinRunLength(aSize) == GoldMinRunLoop(aSize, 0)

InitMinRun ==
    /\ UnitIdle(<<>>, "less")
    /\ hint \in 1..MaxSize
    /\ value = NoElem
    /\ result = 0
    /\ pivot = 0
    /\ mNumRunInStack = 0
    /\ mStack = <<>>
    /\ pc = "call"

\* result = TimSortImpl::CalcMinRunLength(n); gold = CalcMinRunLength(n);
\* n is hint, gold is pivot
CalcMinRunLengthCall ==
    /\ pc = "call"
    /\ result' = CalcMinRunLength(hint)
    /\ pivot' = GoldMinRunLength(hint)
    /\ fail' = IF hint > 0 THEN fail ELSE fail \cup {"CalcMinRunLength:n>0"}
    /\ pc' = "CalcMinRunLength"
    /\ UNCHANGED <<arr, input, comp, mArraySize, mNumRunInStack, mStack,
                   mMinGallop, mergeCap, minRunLength, next, run, oob, hint,
                   value, ndebug, log>>

NextMinRun == CalcMinRunLengthCall

SpecMinRun == InitMinRun /\ [][NextMinRun]_vars

RECURSIVE IsPowerOfTwo(_)
IsPowerOfTwo(n) == n = 1 \/ (n > 1 /\ n % 2 = 0 /\ IsPowerOfTwo(n \div 2))

\* C11: for every n >= 1, CalcMinRunLength(n) lies in 1..32; it is n when
\* n < 32; it is 16 when n is a power of two that is 32 or more; it lies in
\* 16..32 when n >= 32; and it is the value the test computes by shifting
\* with a sticky bit.
C11_MinRunRange ==
    pc = "CalcMinRunLength" =>
        /\ fail = {}
        /\ result \in 1..kMaxMinRunLength
        /\ hint < kMaxMinRunLength => result = hint
        /\ hint >= kMaxMinRunLength =>
               result \in (kMaxMinRunLength \div 2)..kMaxMinRunLength
        /\ (hint >= kMaxMinRunLength /\ IsPowerOfTwo(hint)) =>
               result = kMaxMinRunLength \div 2
        /\ result = pivot

\* CalcMinRunLength has returned for a power of two above kMaxMinRunLength
C11_Witness ==
    /\ pc = "CalcMinRunLength"
    /\ hint > kMaxMinRunLength
    /\ IsPowerOfTwo(hint)
    /\ result = kMaxMinRunLength \div 2

\* C12 (as stated): for a size of exactly 32 the minrun computed is the
\* size, 32, and for a size of exactly 33 it is 17.
C12_MinRunIsSizeAt32 ==
    pc = "CalcMinRunLength" =>
        /\ hint = kMaxMinRunLength => result = hint
        /\ hint = kMaxMinRunLength + 1 => result = kMaxMinRunLength \div 2 + 1

\* C12 (amended): for a size of exactly 32 the minrun computed is 16, since
\* the loop shifts while n >= 32, and for a size of exactly 33 it is 17.
C12_MinRunAt32And33 ==
    pc = "CalcMinRunLength" =>
        /\ hint = kMaxMinRunLength => result = kMaxMinRunLength \div 2
        /\ hint = kMaxMinRunLength + 1 => result = kMaxMinRunLength \div 2 + 1

\* CalcMinRunLength has returned for the size 32 or the size 33
C12_Witness ==
    /\ pc = "CalcMinRunLength"
    /\ \/ hint = kMaxMinRunLength /\ result = kMaxMinRunLength \div 2
       \/ hint = kMaxMinRunLength + 1 /\ result = kMaxMinRunLength \div 2 + 1

-----------------------------------------------------------------------------
(* The merge policy of TryMerge, on the stacks of TestTryMerge             *)

\* the two rules the comment above TryMerge states, for the three runs on
\* top of the stack: 1. A > B + C, 2. B > C
RulesObeyed(ms) ==
    ms.num < 2 \/
    LET pos == ms.num - 2
    IN  /\ pos > 0 => GetLength(ms, pos - 1)
                          > GetLength(ms, pos) + GetLength(ms, pos + 1)
        /\ GetLength(ms, pos) > GetLength(ms, pos + 1)

\* C13: TryMerge merges only while a rule is broken; when the rules hold on
\* entry, and in particular with exactly two runs where len(B) > len(C), it
\* performs no merge and leaves the stack and the array unchanged.
C13_NoMergeWhenRulesObeyed ==
    [][(pc = "call" /\ RulesObeyed(State))
           => (arr' = arr /\ mStack' = mStack
               /\ mNumRunInStack' = mNumRunInStack)]_vars

-----------------------------------------------------------------------------
(* DetectRunAndMakeAscending, as Sort calls it on [next, last)             *)

\* C14: for every strict weak order less, DetectRunAndMakeAscending returns
\* p <= last such that [first, p) is weakly ascending under less afterwards:
\* no element of the run is less than the one before it.
C14_DetectedRunAscending ==
    pc = "detected" =>
        /\ run.first < run.last
        /\ run.last <= Last
        /\ IsSortedBy(comp, Range(arr, run.first, run.last))

-----------------------------------------------------------------------------
(* MergeAt called once, as TryMerge and ForceMerge call it: on a stack of  *)
(* two or three adjacent runs, each weakly ascending under comp, at the    *)
(* slot mNumRunInStack - 2 or mNumRunInStack - 3.  The stack slot is hint. *)

MaxMergeAtLen == MaxLen + 3

\* the pairs of runs: nothing is asked of how the two runs compare
MergeAtPairs ==
    {fs \in ShortPairs : Len(fs[1]) + Len(fs[2]) <= MaxMergeAtLen} \cup LongPairs

\* the third run, of one element
ThirdRun == << <<MaxKey, 0>> >>

\* where the third run lies: there is none, it is below the two runs merged
\* (MergeAt at mNumRunInStack - 2), or it is on top of them (MergeAt at
\* mNumRunInStack - 3)
Layouts == {"two", "below", "top"}

InitMergeAt ==
    /\ \E c \in Comparators, fs \in MergeAtPairs, lay \in Layouts :
       \E ab \in {Tagged(c, fs[1], 0) \o Tagged(c, fs[2], 1)} :
       \E nA \in {Len(fs[1])}, nB \in {Len(fs[2])} :
           CASE lay = "two" ->
                    /\ UnitIdle(ab, c)
                    /\ mStack = RunStack(<<nA, nB>>)
                    /\ mNumRunInStack = 2
                    /\ hint = 0
             [] lay = "below" ->
                    /\ UnitIdle(ThirdRun \o ab, c)
                    /\ mStack = RunStack(<<1, nA, nB>>)
                    /\ mNumRunInStack = 3
                    /\ hint = 1
             [] lay = "top" ->
                    /\ UnitIdle(ab \o ThirdRun, c)
                    /\ mStack = RunStack(<<nA, nB, 1>>)
                    /\ mNumRunInStack = 3
                    /\ hint = 0
    /\ value = NoElem
    /\ result = 0
    /\ pivot = 0
    /\ pc = "call"

MergeAtCall ==
    /\ pc = "call"
    /\ \E ms \in {MergeAt(State, hint, comp)} : Store(ms, "MergeAt")
    /\ UNCHANGED <<input, comp, mArraySize, minRunLength, next, run, hint,
                   value, result, pivot, ndebug>>

NextMergeAt == MergeAtCall

SpecMergeAt == InitMergeAt /\ [][NextMergeAt]_vars

\* C15: for two adjacent non-empty stack runs, each weakly ascending under
\* less, MergeAt returns without merging or calls MergeLow with
\* 0 < |A| <= |B| or MergeHigh with |A| > |B| > 0, and no assertion fails:
\* not the preconditions of MergeLow and MergeHigh, not those in their
\* loops and at their exit labels, not those on the hints of the gallops.
C15_MergeAtAssertionsHold ==
    pc # "call" =>
        /\ pc = "MergeAt"
        /\ fail = {}
        /\ Cardinality(Merges) <= 1
        /\ \A i \in Merges :
               /\ log[i].at = "ret"
               /\ log[i].op = "MergeLow" =>
                      0 < log[i].lenA /\ log[i].lenA <= log[i].lenB
               /\ log[i].op = "MergeHigh" =>
                      0 < log[i].lenB /\ log[i].lenA > log[i].lenB

\* MergeAt has merged with MergeHigh, more than one round of it in
\* galloping mode, and has moved elements
C15_Witness ==
    /\ pc = "MergeAt"
    /\ fail = {}
    /\ arr # input
    /\ \E i \in Merges : log[i].op = "MergeHigh" /\ log[i].gallops > 1

-----------------------------------------------------------------------------------------------------------------------------------------------------
(* TryMerge or ForceMerge called once on the stacks of TestTryMerge        *)

ForceMergeCall ==
    /\ pc = "call"
    /\ \E ms \in {ForceMerge(State, comp)} : Store(ms, "ForceMerge")
    /\ UNCHANGED <<input, comp, mArraySize, minRunLength, next, run, hint,
                   value, result, pivot, ndebug>>

NextStackMerge == TryMergeCall \/ ForceMergeCall

SpecStackMerge == InitTryMerge /\ [][NextStackMerge]_vars

\* C16: ForceMerge, called on any stack of 2 or more runs, never accesses a
\* stack slot outside [0, stack size): it does not read slot pos - 1 (slot
\* -1) when only two runs remain.
C16_StackAccessInBounds == oob = {}

-----------------------------------------------------------------------------
(* The threshold of the galloping mode across the merges of a sort         *)

\* the merges of the sort, in the order they were made
MergeLog == SelectSeq(log, LAMBDA r : r.op \in {"MergeLow", "MergeHigh"})

\* C17: MergeLow and MergeHigh store the minGallop adapted during the merge
\* back into the merge state on every exit path, so that after a merge
\* mMinGallop is the value the merge ended with and the next merge of the
\* sort starts from it.
C17_MinGallopStoredBack ==
    \E ml \in {MergeLog} :
        (ml # <<>> /\ fail = {}) => mMinGallop = ml[Len(ml)].mg

-----------------------------------------------------------------------------
(* The merge area across the merges of a sort                              *)

\* the number of elements a merge copies into the merge area
Copied(m) == IF m.op = "MergeLow" THEN m.lenA ELSE m.lenB

\* the smallest power of two above r
PowerOfTwoAbove(r) ==
    CHOOSE q \in 1..(2 * r + 1) : IsPowerOfTwo(q) /\ q > r /\ q \div 2 <= r

\* the capacity reserved before the n-th merge
CapacityBefore(ml, n) == IF n = 1 THEN kInitMergeAreaSize ELSE ml[n - 1].cap

\* C18: in every merge of a sort of N elements the number of elements
\* copied into the merge area is the smaller of the two trimmed run lengths,
\* is at most N div 2, and is at most the capacity reserved before the copy;
\* that capacity is the greater of the capacity before the merge and
\* min(smallest power of two above the request, N div 2), it is never below
\* kInitMergeAreaSize, and it never shrinks.
C18_MergeAreaCapacity ==
    /\ oob = {}
    /\ pc # "Sort" => mergeCap >= kInitMergeAreaSize
    /\ \E ml \in {MergeLog} : \A n \in 1..Len(ml) :
           /\ Copied(ml[n]) = Min(ml[n].lenA, ml[n].lenB)
           /\ Copied(ml[n]) <= mArraySize \div 2
           /\ Copied(ml[n]) <= ml[n].cap
           /\ ml[n].cap = Max(CapacityBefore(ml, n),
                              Min(PowerOfTwoAbove(Copied(ml[n])),
                                  mArraySize \div 2))
           /\ CapacityBefore(ml, n) <= ml[n].cap
           /\ ml[n].cap <= mergeCap

\* a sort has merged two runs that needed more than the initial
\* reservation, and less than half the range
C18_Witness ==
    /\ pc = "done"
    /\ \E i \in Merges :
           /\ Copied(log[i]) > kInitMergeAreaSize
           /\ log[i].cap > kInitMergeAreaSize
           /\ log[i].cap < mArraySize \div 2

-----------------------------------------------------------------------------
(* What MergeAt leaves in place                                            *)

\* the elements of [f, l) are the same in a and b
SameIn(a, b, f, l) == \A p \in f..(l - 1) : At(a, p) = At(b, p)

\* C19: MergeAt moves no element outside the trimmed merge region: the
\* prefix of A whose elements are <= *firstB, the suffix of B whose elements
\* are > *(lastA-1) and every element outside [firstA, lastB) are the same
\* at the same positions afterwards; when the whole of A is <= *firstB, or
\* the whole of B is >= *(lastA-1), no element is written at all.
C19_MergeAtFrame ==
    [][pc = "call" =>
        LET firstA == mStack[hint + 1].first
            lastA  == mStack[hint + 1].last
            firstB == mStack[hint + 2].first
            lastB  == mStack[hint + 2].last
            \* A up to p is <= *firstB
            inPrefix(p) == \A q \in firstA..p :
                               ~Comp(comp, At(arr, firstB), At(arr, q))
            \* B from p on is > *(lastA-1)
            inSuffix(p) == \A q \in p..(lastB - 1) :
                               Comp(comp, At(arr, lastA - 1), At(arr, q))
            \* the whole of B is >= *(lastA-1)
            allOfB == \A q \in firstB..(lastB - 1) :
                          ~Comp(comp, At(arr, q), At(arr, lastA - 1))
        IN  /\ Len(arr') = Len(arr)
            /\ SameIn(arr, arr', 0, firstA)
            /\ SameIn(arr, arr', lastB, Len(arr))
            /\ \A p \in firstA..(lastA - 1) :
                   inPrefix(p) => At(arr', p) = At(arr, p)
            /\ \A p \in firstB..(lastB - 1) :
                   inSuffix(p) => At(arr', p) = At(arr, p)
            /\ (inPrefix(lastA - 1) \/ allOfB) => arr' = arr
      ]_vars

\* MergeAt has merged what was left of two runs after two or more elements
\* were trimmed off them, below a third run, and has moved elements
C19_Witness ==
    /\ pc = "MergeAt"
    /\ arr # input
    /\ mNumRunInStack = 2
    /\ hint = 0
    /\ \E i \in Merges :
           /\ log[i].lenA < log[i].lenB
           /\ log[i].lenA + log[i].lenB + 2 <= GetLength(State, 0)

-----------------------------------------------------------------------------
(* The stack across the calls of MergeAt made by TryMerge and ForceMerge   *)

\* the calls of MergeAt, in the order they were made
MergeAtLog == SelectSeq(log, LAMBDA r : r.op = "MergeAt")

\* the stack after the n-th call of MergeAt: the stack the next call found,
\* or the stack now
StackAfter(ml, n) == IF n < Len(ml) THEN ml[n + 1].stack ELSE mStack

NumAfter(ml, n) == IF n < Len(ml) THEN ml[n + 1].num ELSE mNumRunInStack

\* each of the first n entries ends where the next begins
Tiles(stack, n) == \A j \in 1..(n - 1) : stack[j].last = stack[j + 1].first

\* C20: MergeAt(i) is invoked only with i = stack size - 2 or stack size - 3;
\* after it entry i spans from the old entry i's first to the old entry
\* i+1's last, the former top entry has moved down one slot iff i was
\* size - 3, every entry below i is unchanged, the stack size has decreased
\* by exactly one, and the entries still tile a contiguous range.
C20_StackFixUp ==
    \E ml \in {MergeAtLog} : \A n \in 1..Len(ml) :
        LET i      == ml[n].stackPos
            size   == ml[n].num
            old    == ml[n].stack
            new    == StackAfter(ml, n)
            newNum == NumAfter(ml, n)
        IN  /\ i = size - 2 \/ i = size - 3
            /\ i >= 0
            /\ newNum = size - 1
            /\ new[i + 1].first = old[i + 1].first
            /\ new[i + 1].last = old[i + 2].last
            /\ (i = size - 3) => new[i + 2] = old[i + 3]
            /\ (i = size - 2) => newNum = i + 1
            /\ \A j \in 1..i : new[j] = old[j]
            /\ Tiles(new, newNum)

\* a call of MergeAt at the third slot from the top, after which the former
\* top run lies one slot lower
C20_Witness ==
    /\ pc \in {"TryMerge", "ForceMerge"}
    /\ \E ml \in {MergeAtLog} :
           /\ Len(ml) = 2
           /\ ml[1].stackPos = ml[1].num - 3
           /\ ml[2].stack[2] = ml[1].stack[3]

-----------------------------------------------------------------------------
(* The depth of the merge stack in a sort                                  *)

\* the pushes of the sort, in the order they were made
PushLog == SelectSeq(log, LAMBDA r : r.op = "push")

RunLog == SelectSeq(log, LAMBDA r : r.op = "run")

\* C22: the runs the driver pushes are non-empty and tile the input in order:
\* the first starts at first, each starts where the one before it ended, and
\* once the sort has returned the last ends at last.  Each pushed run has
\* length max(r, min(minrun, remaining)), r being the length of the natural
\* run detected at its start and remaining the number of elements from its
\* start to last, and it went through BinaryInsertionSort exactly when
\* r < minrun and r < remaining.
C22_PushedRunsTile ==
    \E pl \in {PushLog} : \E rl \in {RunLog} :
        /\ Len(rl) \in {Len(pl), Len(pl) + 1}
        /\ \A n \in 1..Len(pl) :
               /\ pl[n].first < pl[n].last
               /\ pl[n].first = (IF n = 1 THEN 0 ELSE pl[n - 1].last)
               /\ pl[n].last <= Last
               /\ rl[n].first = pl[n].first
               /\ rl[n].remaining = Last - pl[n].first
               /\ rl[n].natural >= 1
               /\ pl[n].last - pl[n].first
                      = Max(rl[n].natural, Min(minRunLength, rl[n].remaining))
               /\ rl[n].sorted <=> (/\ rl[n].natural < minRunLength
                                    /\ rl[n].natural < rl[n].remaining)
        /\ (pc = "done" /\ Last > 0) =>
               /\ Len(pl) >= 1
               /\ pl[Len(pl)].last = Last

\* a finished sort that pushed an extended run and then a natural run left as
\* it was, longer than minrun
C22_Witness ==
    /\ pc = "done"
    /\ \E pl \in {PushLog} : \E rl \in {RunLog} :
           /\ Len(pl) >= 2
           /\ Len(rl) = Len(pl)
           /\ pl[Len(pl)].last = Last
           /\ \E n \in 1..Len(pl) :
                  /\ rl[n].sorted
                  /\ pl[n].last - pl[n].first = minRunLength
                  /\ minRunLength < rl[n].remaining
           /\ \E n \in 1..Len(pl) :
                  /\ ~rl[n].sorted
                  /\ rl[n].natural > minRunLength


(***************************************************************************)
(* Termination of the sort.  Sort is one sequential call: whenever it has  *)
(* a next statement it executes it, which is weak fairness of Next.        *)
(***************************************************************************)

\* the inputs of the sorts whose termination is checked: the inputs shorter
\* than MaxLen, the wide ones, and the patterns of every ninth period
LivePeriods == {p \in 1..MaxPeriod : p % 9 = 4}

LiveInputs ==
    UNION {[1..n -> Elements] : n \in 0..(MaxLen - 1)}
    \cup WideInputs
    \cup {Pattern(kind, p, n) : kind \in PatternKinds, p \in LivePeriods,
                                n \in LargeLens}

InitLive == Init /\ input \in LiveInputs

SpecLive == InitLive /\ [][Next]_vars /\ WF_vars(Next)

\* Sort has returned, or a build with assertions has stopped at one
Terminated ==
    \/ pc = "done"
    \/ pc = "abort" /\ ~ndebug /\ fail # {}

\* every iteration of the loop of a merge consumes an element of the two
\* runs, and the merge has left its loop by a return or an exit label
MergeStepsBounded ==
    \E ml \in {MergeLog} : \A n \in 1..Len(ml) :
        /\ ml[n].at \in {"ret", "abort"}
        /\ ml[n].at = "abort" => ~ndebug
        /\ ml[n].steps <= ml[n].lenA + ml[n].lenB
        /\ ml[n].gallops <= ml[n].steps

\* every iteration of the loops of TryMerge and ForceMerge takes one run off
\* the stack
StackShrinks ==
    /\ Len(MergeAtLog) + mNumRunInStack = Len(PushLog)
    /\ \E al \in {MergeAtLog} : \A n \in 1..Len(al) : al[n].num > 1

\* the exponential searches of GallopLeft and GallopRight hand over a window
\* that lies within the range they were given
GallopsInRange ==
    fail \cap {"GallopLeft:window", "GallopRight:window"} = {}

\* the position of the driver never goes back and every iteration of its loop
\* moves it forward, by the length of the run pushed
NextAdvances ==
    /\ next' >= next
    /\ next' <= Last
    /\ pc = "merged" => next' > next /\ next' = run.last

\* C23: TimSort terminates on every non-empty input: from the call of Sort
\* the sort comes to its return (or, in a build with assertions, to a failed
\* assertion).  On the way the position next of the driver strictly advances
\* at every iteration, every iteration of the loops of TryMerge and
\* ForceMerge takes a run off the stack, and every merge leaves its loop
\* after no more iterations than the two runs have elements, and the
\* exponential searches of GallopLeft and GallopRight stay within their range.
C23_Terminates ==
    /\ (pc = "Sort" /\ Last > 0) ~> Terminated
    /\ [][NextAdvances]_vars
    /\ [](MergeStepsBounded /\ StackShrinks /\ GallopsInRange)

\* a returned sort of more than one iteration of the driver, with merges from
\* both loops' callers and a merge that galloped
C23_Witness ==
    /\ pc = "done"
    /\ Last > 0
    /\ next = Last
    /\ Len(PushLog) >= 3
    /\ Len(MergeAtLog) = Len(PushLog) - 1
    /\ \E ml \in {MergeLog} : \E n \in 1..Len(ml) :
           /\ ml[n].gallops >= 1
           /\ ml[n].steps > ml[n].gallops

=============================================================================
